---- MODULE Spec2Model ----
(***************************************************************************)
(* EDF -> EDF+ converter (edf2edfplus.py) and its rollback (rollback.py).  *)
(*                                                                         *)
(* The programs modelled:                                                  *)
(*   - read_edf_file_direct: the fixed-width header parser (SpecHeader)    *)
(*     and the data records (SpecDecode);                                  *)
(*   - create_mne_raw_from_edf_data: the scaling (SpecScale);              *)
(*   - convert_edf_to_edfplus: duration reconciliation, event alignment,   *)
(*     status write-back, backup and export (Spec and SpecEvents, which    *)
(*     share Next and differ only in the inputs Init draws);               *)
(*   - generate_correct_filename (SpecFilename);                           *)
(*   - rollback_edf_files after a conversion (SpecFiles);                  *)
(*   - process_all_edf_files: the loop over the files (SpecBatch).         *)
(*                                                                         *)
(* Time is fixed point: one tick is 0.01 s.  A field of the binary header  *)
(* is a sequence of one-character strings; "0x80" stands for one byte that *)
(* is not ASCII.                                                           *)
(***************************************************************************)
EXTENDS Integers, Sequences, FiniteSets, TLC

VARIABLES
    \* ---- read_edf_file_direct ----
    hpc,            \* position in read_edf_file_direct
    fieldName,      \* name of the header field parsed last
    fieldText,      \* the bytes of that field
    header,         \* header dict (numeric fields of the main header)
    signal_info,    \* signal dict being filled (numeric fields)
    signals,        \* header['signals']
    \* ---- convert_edf_to_edfplus ----
    pc,             \* position in convert_edf_to_edfplus
    edf,            \* the EDF file: header field bytes and what MNE decodes
    sheets,         \* the matching Excel files: file -> worksheet rows
    excel_files,    \* result of find_matching_excel_files
    n_records, record_duration, header_duration,
    raw,            \* the MNE Raw object: [sfreq, data]
    original_duration, zero_padding_start,
    target_samples, current_samples,
    reference_time,
    all_events, excel_event_mapping,
    onsets, durations, descriptions, event_status,
    colF,           \* column F of each worksheet: file -> (row -> value)
    error,          \* the exception caught by convert_edf_to_edfplus, "" if none
    result,         \* return value of convert_edf_to_edfplus
    \* ---- read_edf_file_direct (data records), create_mne_raw_from_edf_data ----
    file_bytes,     \* number of bytes of the file behind the headers
    fpos,           \* bytes of them read so far
    edf_data,       \* the sample grid: channel -> samples
    rec, sig,       \* loop counters of the record and signal loops (from 0)
    data_float,     \* the scaled grid of create_mne_raw_from_edf_data
    herror,         \* the exception that left the function, "" if none
    \* ---- file names and files ----
    edf_file,       \* the EDF file: its name and the text fields of its header
    fpc,            \* position in generate_correct_filename called on its own
    new_filename,   \* what generate_correct_filename returned
    fs,             \* the directory of the EDF file: file name -> contents
    backup_file,    \* the backup name convert_edf_to_edfplus moved the file to
    output_file,    \* the name convert_edf_to_edfplus exports to
    \* ---- rollback_edf_files ----
    rpc,            \* position in rollback_edf_files
    backup_files,   \* the backup files found and not processed yet
    backup_path,    \* the backup file processed last
    original_path, edfplus_path,    \* the names parsed from it
    restored_count, removed_edfplus_count,
    \* ---- process_all_edf_files ----
    bpc,            \* position in process_all_edf_files
    listing,        \* the names base_path.rglob("*.edf") yields
    edf_files,      \* the files to process, in the order of the loop
    success_count, failed_files,
    outcomes        \* what each call of convert_edf_to_edfplus did, in order

hvars == <<hpc, fieldName, fieldText, header, signal_info, signals>>
cvars == <<pc, edf, sheets, excel_files, n_records, record_duration,
           header_duration, raw, original_duration, zero_padding_start,
           target_samples, current_samples, reference_time, all_events,
           excel_event_mapping, onsets, durations, descriptions,
           event_status, colF, error, result>>
dvars == <<file_bytes, fpos, edf_data, rec, sig, data_float, herror>>
fvars == <<edf_file, fpc, new_filename, fs, backup_file, output_file>>
rvars == <<rpc, backup_files, backup_path, original_path, edfplus_path,
           restored_count, removed_edfplus_count>>
bvars == <<bpc, listing, edf_files, success_count, failed_files, outcomes>>
vars == <<hvars, cvars, dvars, fvars, rvars, bvars>>

None == "None"

\* an optional number: NoVal is Python's None, or a key a dict does not have
NoVal == <<>>
Some(v) == <<v>>
Val(o) == o[1]

(***************************************************************************)
(* Python text -> number conversions                                       *)
(***************************************************************************)
Digit == {"0", "1", "2", "3", "4", "5", "6", "7", "8", "9"}

DigitVal(c) ==
    CASE c = "0" -> 0 [] c = "1" -> 1 [] c = "2" -> 2 [] c = "3" -> 3
      [] c = "4" -> 4 [] c = "5" -> 5 [] c = "6" -> 6 [] c = "7" -> 7
      [] c = "8" -> 8 [] c = "9" -> 9

IsAscii(c) == c # "0x80"

\* bytes.decode('ascii', errors='ignore')
DecodeIgnore(b) == SelectSeq(b, IsAscii)

\* bytes.decode('ascii') raises UnicodeDecodeError on a non-ASCII byte
DecodeStrictOk(b) == \A i \in 1..Len(b) : IsAscii(b[i])

RECURSIVE LStrip(_)
LStrip(s) == IF s # <<>> /\ Head(s) = " " THEN LStrip(Tail(s)) ELSE s

RECURSIVE RStrip(_)
RStrip(s) ==
    IF s # <<>> /\ s[Len(s)] = " " THEN RStrip(SubSeq(s, 1, Len(s) - 1)) ELSE s

\* str.strip()
Strip(s) == RStrip(LStrip(s))

AllDigits(s) == \A i \in 1..Len(s) : s[i] \in Digit

RECURSIVE DigitsVal(_)
DigitsVal(s) ==
    IF s = <<>> THEN 0
    ELSE 10 * DigitsVal(SubSeq(s, 1, Len(s) - 1)) + DigitVal(s[Len(s)])

HasSign(s) == s # <<>> /\ Head(s) \in {"-", "+"}
Unsigned(s) == IF HasSign(s) THEN Tail(s) ELSE s
SignOf(s) == IF s # <<>> /\ Head(s) = "-" THEN -1 ELSE 1

\* int(text): optional blanks, optional sign, at least one digit
PyIntOk(s) == LET u == Unsigned(Strip(s)) IN u # <<>> /\ AllDigits(u)
PyIntVal(s) == LET t == Strip(s) IN SignOf(t) * DigitsVal(Unsigned(t))

\* position of the first "." of s, 0 when there is none
DotPos(s) ==
    IF \E i \in 1..Len(s) : s[i] = "."
    THEN CHOOSE i \in 1..Len(s) :
            s[i] = "." /\ \A j \in 1..(i - 1) : s[j] # "."
    ELSE 0

IntPart(u) == IF DotPos(u) = 0 THEN u ELSE SubSeq(u, 1, DotPos(u) - 1)
FracPart(u) == IF DotPos(u) = 0 THEN <<>> ELSE SubSeq(u, DotPos(u) + 1, Len(u))

\* float(text): optional blanks, optional sign, digits with at most one "."
\* and at least one digit
PyFloatOk(s) ==
    LET u == Unsigned(Strip(s))
    IN /\ AllDigits(IntPart(u))
       /\ AllDigits(FracPart(u))
       /\ Len(IntPart(u)) + Len(FracPart(u)) > 0

\* the float in hundredths (exact for texts with at most two decimals)
PyFloatVal(s) ==
    LET t == Strip(s)
        u == Unsigned(t)
        f == FracPart(u)
        f2 == SubSeq(f \o <<"0", "0">>, 1, 2)
    IN SignOf(t) * (100 * DigitsVal(IntPart(u)) + DigitsVal(f2))

\* read_edf_file_direct: try: int(text.strip() or '0') except: 0
IntOrZero(b) ==
    LET t == Strip(DecodeIgnore(b))
        u == IF t = <<>> THEN <<"0">> ELSE t
    IN IF PyIntOk(u) THEN PyIntVal(u) ELSE 0

\* read_edf_file_direct: try: float(text.strip() or '0') except: 0.0
FloatOrZero(b) ==
    LET t == Strip(DecodeIgnore(b))
        u == IF t = <<>> THEN <<"0">> ELSE t
    IN IF PyFloatOk(u) THEN PyFloatVal(u) ELSE 0

(***************************************************************************)
(* read_edf_file_direct: main header and signal headers                    *)
(***************************************************************************)
\* the field contents tried: missing bytes (short file), blanks, text that
\* is no number, a number, a signed number, a decimal number, a number
\* next to a non-ASCII byte
FieldTexts ==
    { <<>>, <<" ", " ">>, <<"x", " ">>, <<"1", " ">>, <<"-", "1">>,
      <<"1", ".", "5">>, <<"0x80", "1">> }

MainFields == <<"version", "header_bytes", "records", "duration", "nsignals">>
SignalFields == <<"physical_min", "physical_max", "digital_min",
                  "digital_max", "samples_per_record">>
FloatFields == {"version", "duration", "physical_min", "physical_max"}

\* the value read_edf_file_direct stores for field f holding bytes b
ParseField(f, b) == IF f \in FloatFields THEN FloatOrZero(b) ELSE IntOrZero(b)

IndexOf(seq, x) == CHOOSE i \in 1..Len(seq) : seq[i] = x

EmptyDict == [k \in {} |-> 0]
Put(d, k, v) == [x \in DOMAIN d \cup {k} |-> IF x = k THEN v ELSE d[x]]

\* range(n) as 1..n: empty when n <= 0
PyRange(n) == 1..n

InitHeaderVars ==
    /\ hpc = "version"
    /\ fieldName = None
    /\ fieldText = <<>>
    /\ header = EmptyDict
    /\ signal_info = EmptyDict
    /\ signals = <<>>

\* where the parser goes once a signal header is complete or nsignals known
NextSignalOrData(h, sigs) ==
    IF Len(sigs) + 1 \in PyRange(h["nsignals"]) THEN "physical_min" ELSE "data"

ReadMainField ==
    /\ \E i \in 1..Len(MainFields) : hpc = MainFields[i]
    /\ \E b \in FieldTexts :
         LET h == Put(header, hpc, ParseField(hpc, b))
             i == IndexOf(MainFields, hpc)
         IN /\ header' = h
            /\ fieldName' = hpc
            /\ fieldText' = b
            /\ hpc' = IF i < Len(MainFields) THEN MainFields[i + 1]
                      ELSE NextSignalOrData(h, signals)
    /\ UNCHANGED <<signal_info, signals>>

ReadSignalField ==
    /\ \E i \in 1..Len(SignalFields) : hpc = SignalFields[i]
    /\ \E b \in FieldTexts :
         LET s == Put(signal_info, hpc, ParseField(hpc, b))
             i == IndexOf(SignalFields, hpc)
         IN /\ fieldName' = hpc
            /\ fieldText' = b
            /\ IF i < Len(SignalFields)
               THEN /\ signal_info' = s
                    /\ signals' = signals
                    /\ hpc' = SignalFields[i + 1]
               ELSE /\ signal_info' = EmptyDict
                    /\ signals' = Append(signals, s)
                    /\ hpc' = NextSignalOrData(header, Append(signals, s))
    /\ UNCHANGED header

(***************************************************************************)
(* read_edf_file_direct: the data records                                  *)
(***************************************************************************)
\* the k-th 16-bit sample behind the headers (from 1), never zero
StreamSample(k) == k

Max(S) == CHOOSE x \in S : \A y \in S : y <= x

\* total_samples_per_signal[c - 1]
total_samples(h, sigs, c) == h["records"] * sigs[c]["samples_per_record"]

\* an allocation sized by the first signal alone
max_samples_of_first(h, sigs) ==
    IF sigs = <<>> THEN 0 ELSE total_samples(h, sigs, 1)

\* "max(total_samples_per_signal) if total_samples_per_signal else 0"
max_samples(h, sigs) ==
    IF sigs = <<>> THEN 0
    ELSE Max({total_samples(h, sigs, c) : c \in 1..Len(sigs)})

\* np.zeros((nsignals, max_samples)) raises ValueError on a negative dimension
ZerosOk(h, sigs) == h["nsignals"] >= 0 /\ max_samples(h, sigs) >= 0

\* data[sig, start_idx:end_idx] = signal_data (data is edf_data here), the block being the samples
\* first + 1 .. first + samples of the file
StoreBlock(grid, c, start_idx, end_idx, first) ==
    [grid EXCEPT ![c] =
        [k \in 1..Len(@) |->
            IF start_idx < k /\ k <= end_idx
            THEN StreamSample(first + k - start_idx) ELSE @[k]]]

\* the allocation of the grid
AllocateGrid ==
    /\ hpc = "data"
    /\ IF ZerosOk(header, signals)
       THEN /\ edf_data' = [c \in 1..header["nsignals"] |->
                           [k \in 1..max_samples(header, signals) |-> 0]]
            /\ herror' = herror
            /\ hpc' = IF header["records"] > 0 /\ header["nsignals"] > 0
                      THEN "read" ELSE "returned"
       ELSE /\ edf_data' = edf_data
            /\ herror' = "ValueError"
            /\ hpc' = "raised"
    /\ UNCHANGED <<fieldName, fieldText, header, signal_info, signals,
                   file_bytes, fpos, rec, sig, data_float>>

\* one pass of "for rec ...: for sig ...:": the block of signal sig of record
\* rec; struct.unpack raises struct.error when f.read returns fewer than
\* samples * 2 bytes
ReadBlock ==
    /\ hpc = "read"
    /\ LET samples == signals[sig + 1]["samples_per_record"]
           start_idx == rec * samples
           end_idx == (rec + 1) * samples
           last_sig == sig + 1 = header["nsignals"]
           last_rec == rec + 1 = header["records"]
       IN IF samples > 0 /\ file_bytes - fpos < samples * 2
          THEN /\ fpos' = file_bytes
               /\ herror' = "struct.error"
               /\ hpc' = "raised"
               /\ UNCHANGED <<edf_data, rec, sig>>
          ELSE /\ IF samples > 0
                  THEN /\ fpos' = fpos + samples * 2
                       /\ edf_data' =
                            IF end_idx <= max_samples(header, signals)
                            THEN StoreBlock(edf_data, sig + 1, start_idx,
                                            end_idx, fpos \div 2)
                            ELSE edf_data
                  ELSE UNCHANGED <<fpos, edf_data>>
               /\ sig' = IF last_sig THEN 0 ELSE sig + 1
               /\ rec' = IF last_sig THEN rec + 1 ELSE rec
               /\ hpc' = IF last_sig /\ last_rec THEN "returned" ELSE "read"
               /\ herror' = herror
    /\ UNCHANGED <<fieldName, fieldText, header, signal_info, signals,
                   file_bytes, data_float>>

(***************************************************************************)
(* create_mne_raw_from_edf_data                                            *)
(***************************************************************************)
\* a float64 as an exact fraction; den = 0 stands for an infinity or a NaN
Real(d) == [num |-> d, den |-> 1]

\* a division by zero that yields an infinity
ZeroDivisionAsInfinity(a, b) == FALSE

\* a / b raises ZeroDivisionError: both operands are Python numbers
ZeroDivision(a, b) == b = 0

\* a scaling applied to every channel
NeedsScalingAlways(signal) == TRUE

\* "if signal['physical_max'] != signal['physical_min']"
NeedsScaling(signal) == signal["physical_max"] # signal["physical_min"]

\* d * scale + offset with scale = (physical_max - physical_min) /
\* (digital_max - digital_min) and offset = physical_min - scale * digital_min;
\* the physical limits are in hundredths
Scaled(d, signal) ==
    LET physical_range == signal["physical_max"] - signal["physical_min"]
        digital_range == signal["digital_max"] - signal["digital_min"]
    IN [num |-> (d - signal["digital_min"]) * physical_range
                    + signal["physical_min"] * digital_range,
        den |-> 100 * digital_range]

\* the channel the scaling loop raises at, 0 when it completes
RaisingChannel(sigs) ==
    LET raising == {c \in 1..Len(sigs) :
                       /\ NeedsScaling(sigs[c])
                       /\ ZeroDivision(sigs[c]["physical_max"]
                                          - sigs[c]["physical_min"],
                                       sigs[c]["digital_max"]
                                          - sigs[c]["digital_min"])}
    IN IF raising = {} THEN 0
       ELSE CHOOSE c \in raising : \A b \in raising : c <= b

\* data_float after the scaling loop
ScaledGrid(grid, sigs) ==
    [c \in 1..Len(grid) |->
        [k \in 1..Len(grid[c]) |->
            IF c <= Len(sigs) /\ NeedsScaling(sigs[c])
            THEN Scaled(grid[c][k], sigs[c]) ELSE Real(grid[c][k])]]

\* sampling_rate and mne.create_info: signals[0] raises IndexError without
\* signals, the division raises for a zero duration, and MNE may reject the
\* sampling rate or the labels
CreateInfo ==
    /\ hpc = "info"
    /\ IF signals = <<>>
       THEN herror' = "IndexError" /\ hpc' = "raised"
       ELSE IF ZeroDivision(signals[1]["samples_per_record"], header["duration"])
       THEN herror' = "ZeroDivisionError" /\ hpc' = "raised"
       ELSE \E accepted \in BOOLEAN :
              IF accepted
              THEN herror' = herror /\ hpc' = "scale"
              ELSE herror' = "ValueError" /\ hpc' = "raised"
    /\ UNCHANGED <<fieldName, fieldText, header, signal_info, signals,
                   file_bytes, fpos, edf_data, rec, sig, data_float>>

\* "Apply physical scaling" and the construction of the Raw object
ApplyScaling ==
    /\ hpc = "scale"
    /\ IF RaisingChannel(signals) # 0
       THEN /\ herror' = "ZeroDivisionError"
            /\ hpc' = "raised"
            /\ data_float' = data_float
       ELSE /\ herror' = herror
            /\ hpc' = "returned"
            /\ data_float' = ScaledGrid(edf_data, signals)
    /\ UNCHANGED <<fieldName, fieldText, header, signal_info, signals,
                   file_bytes, fpos, edf_data, rec, sig>>

(***************************************************************************)
(* convert_edf_to_edfplus: inputs                                          *)
(***************************************************************************)
\* seconds -> ticks is the identity on hundredths; 0.01 s and 0.1 s
DurationThreshold == 1
tolerance == 10

\* one part of a time text split at its separator: a number (in hundredths)
\* or text that float() rejects
Num(v) == [ok |-> TRUE, v |-> v]
NaN == [ok |-> FALSE, v |-> 0]

\* parse_time_to_seconds on the parts of time_str.split(':'), in ticks
parse_time_to_seconds(parts) ==
    IF Len(parts) >= 3
    THEN IF parts[1].ok /\ parts[2].ok /\ parts[3].ok
         THEN parts[1].v * 3600 + parts[2].v * 60 + parts[3].v
         ELSE 0
    ELSE 0

\* parse_edf_time_to_seconds on the parts of edf_time_str.split('.'), in ticks
parse_edf_time_to_seconds(parts) ==
    IF Len(parts) >= 3
    THEN IF parts[1].ok /\ parts[2].ok /\ parts[3].ok
         THEN parts[1].v * 3600 + parts[2].v * 60 + parts[3].v
         ELSE 0
    ELSE IF Len(parts) = 2
    THEN IF parts[1].ok /\ parts[2].ok
         THEN parts[1].v * 3600 + parts[2].v * 60
         ELSE 0
    ELSE 0

\* a worksheet row: blank (every cell empty), or the parts of the text of
\* column C split at ':' and the text of column D
Row(parts, label) == [blank |-> FALSE, time |-> parts, label |-> label]
BlankRow == [blank |-> TRUE, time |-> <<NaN>>, label |-> "nan"]

\* the sample MNE decodes for channel c at index k (never zero)
MneSample(c, k) == 10 * c + k
MneData(nchan, nsamp) == [c \in 1..nchan |-> [k \in 1..nsamp |-> MneSample(c, k)]]

\* ticks between two samples
Period(sfreq) == 100 \div sfreq

\* raw.times[-1], in ticks
LastTime(r) == (Len(r.data[1]) - 1) * Period(r.sfreq)
NSamples(r) == Len(r.data[1])

\* int(x) for x = a / b with b > 0: truncation toward zero
PyIntDiv(a, b) == IF a >= 0 THEN a \div b ELSE -((-a) \div b)

\* seq[:n]
PySliceTo(seq, n) ==
    IF n >= 0 THEN SubSeq(seq, 1, IF n < Len(seq) THEN n ELSE Len(seq))
    ELSE SubSeq(seq, 1, Len(seq) + n)

Abs(x) == IF x >= 0 THEN x ELSE -x

Zeros(n) == [k \in 1..n |-> 0]

(***************************************************************************)
(* File names: extract_edf_metadata, convert_edf_date_time,                *)
(* generate_correct_filename                                               *)
(***************************************************************************)
EdfSuffix == <<".", "e", "d", "f">>
NoDatabaseRecord ==
    <<"N", "o", " ", "D", "a", "t", "a", "b", "a", "s", "e", " ",
      "R", "e", "c", "o", "r", "d">>

\* sub occurs in s at position p
OccursAt(s, sub, p) ==
    p + Len(sub) - 1 <= Len(s) /\ SubSeq(s, p, p + Len(sub) - 1) = sub

\* position of the first occurrence of sub in s, 0 when there is none
Find(s, sub) ==
    LET found == {p \in 1..Len(s) : OccursAt(s, sub, p)}
    IN IF found = {} THEN 0
       ELSE CHOOSE p \in found : \A q \in found : p <= q

\* s.split(sep)
RECURSIVE Split(_, _)
Split(s, sep) ==
    LET p == Find(s, sep)
    IN IF p = 0 THEN <<s>>
       ELSE <<SubSeq(s, 1, p - 1)>>
               \o Split(SubSeq(s, p + Len(sep), Len(s)), sep)

\* s.replace(sub, '')
RECURSIVE Remove(_, _)
Remove(s, sub) ==
    LET p == Find(s, sub)
    IN IF p = 0 THEN s
       ELSE SubSeq(s, 1, p - 1) \o Remove(SubSeq(s, p + Len(sub), Len(s)), sub)

\* Path(name).stem: the name without its last suffix
Stem(name) ==
    LET dots == {i \in 1..Len(name) : name[i] = "."}
        last == IF dots = {} THEN 0 ELSE Max(dots)
    IN IF 1 < last /\ last < Len(name) THEN SubSeq(name, 1, last - 1) ELSE name

DigitChar(d) == CHOOSE c \in Digit : DigitVal(c) = d

\* str(n) for n >= 0
RECURSIVE IntText(_)
IntText(n) ==
    IF n < 10 THEN <<DigitChar(n)>>
    ELSE IntText(n \div 10) \o <<DigitChar(n % 10)>>

\* f"{n:0{width}d}": sign, zeros up to the width, digits
ZeroPadded(n, width) ==
    LET sign == IF n < 0 THEN <<"-">> ELSE <<>>
        digits == IntText(Abs(n))
    IN sign \o [k \in 1..(width - Len(sign) - Len(digits)) |-> "0"] \o digits

\* a pivot that puts the year 50 into the 2000s
full_year_through_50(year) == IF year <= 50 THEN 2000 + year ELSE 1900 + year

\* "2000 + int(year) if int(year) < 50 else 1900 + int(year)"
full_year(year) == IF year < 50 THEN 2000 + year ELSE 1900 + year

\* convert_edf_date_time: NoVal is the None returned after an exception
\* (a split that does not give three parts, a part int() rejects)
convert_edf_date_time(date_str, time_str) ==
    LET d == Split(date_str, <<".">>)
        t == Split(time_str, <<".">>)
    IN IF \/ Len(d) # 3
          \/ ~PyIntOk(d[3]) \/ ~PyIntOk(d[2]) \/ ~PyIntOk(d[1])
          \/ Len(t) # 3
          \/ ~PyIntOk(t[1]) \/ ~PyIntOk(t[2])
       THEN NoVal
       ELSE Some(ZeroPadded(full_year(PyIntVal(d[3])), 4)
                    \o ZeroPadded(PyIntVal(d[2]), 2)
                    \o ZeroPadded(PyIntVal(d[1]), 2)
                    \o <<"_">>
                    \o ZeroPadded(PyIntVal(t[1]), 2)
                    \o ZeroPadded(PyIntVal(t[2]), 2))

\* extract_edf_metadata: the stripped text fields, NoVal when the file
\* cannot be read
extract_edf_metadata(file) ==
    IF file.metadata = NoVal THEN NoVal
    ELSE Some([patient_id |-> Strip(DecodeIgnore(Val(file.metadata).patient_id)),
               start_date |-> Strip(DecodeIgnore(Val(file.metadata).start_date)),
               start_time |-> Strip(DecodeIgnore(Val(file.metadata).start_time))])

\* the end of the digit run of s that starts at p: the first position behind it
RECURSIVE RunEnd(_, _)
RunEnd(s, p) ==
    IF p > Len(s) \/ s[p] \notin Digit THEN p ELSE RunEnd(s, p + 1)

\* r'(\d+)_' matches at p
DigitsUnderscoreAt(s, p) ==
    /\ s[p] \in Digit
    /\ RunEnd(s, p) <= Len(s)
    /\ s[RunEnd(s, p)] = "_"

\* re.search(r'(\d+)_', s): group 1 of the leftmost match, NoVal without one
SearchDigitsUnderscore(s) ==
    LET found == {p \in 1..Len(s) : DigitsUnderscoreAt(s, p)}
    IN IF found = {} THEN NoVal
       ELSE LET first == CHOOSE p \in found : \A q \in found : p <= q
            IN Some(SubSeq(s, first, RunEnd(s, first) - 1))

\* a test that takes the sentinel for an identifier
UsesHeaderIdUnlessEmpty(patient_id) == patient_id # <<>>

\* the negation of 'not patient_id or patient_id == "No Database Record"'
UsesHeaderId(patient_id) ==
    patient_id # <<>> /\ patient_id # NoDatabaseRecord

\* generate_correct_filename: NoVal is None
generate_correct_filename(file) ==
    LET extracted == extract_edf_metadata(file)
    IN IF extracted = NoVal THEN NoVal
       ELSE LET metadata == Val(extracted)
                patient_id == Strip(metadata.patient_id)
                match == SearchDigitsUnderscore(file.name)
                date_time_str == convert_edf_date_time(metadata.start_date,
                                                       metadata.start_time)
            IN IF ~UsesHeaderId(patient_id) /\ match = NoVal THEN NoVal
               ELSE IF date_time_str = NoVal THEN NoVal
               ELSE Some((IF UsesHeaderId(patient_id) THEN patient_id
                          ELSE Val(match))
                            \o <<"_">> \o Val(date_time_str) \o EdfSuffix)

\* generate_correct_filename called on a file
GenerateCorrectFilename ==
    /\ fpc = "call"
    /\ new_filename' = generate_correct_filename(edf_file)
    /\ fpc' = "returned"
    /\ UNCHANGED <<edf_file, fs, backup_file, output_file>>

(***************************************************************************)
(* Files                                                                   *)
(***************************************************************************)
BackupSeparator == <<"_", "b", "a", "c", "k", "u", "p", "_">>

\* the contents of a file: the recording as it was found, or an export with
\* a number of annotations
Recording == [kind |-> "edf", annotations |-> 0]
EdfPlus(n) == [kind |-> "edfplus", annotations |-> n]

\* a backup name that is the name of the export
BackupNameOfExport(original_stem, final_stem) == final_stem \o EdfSuffix

\* f"{original_stem}_backup_{final_stem}.edf"
BackupName(original_stem, final_stem) ==
    original_stem \o BackupSeparator \o final_stem \o EdfSuffix

\* the directory after shutil.move(src, dst): a file at dst is replaced
Move(dir, src, dst) ==
    [n \in (DOMAIN dir \ {src}) \cup {dst} |->
        IF n = dst THEN dir[src] ELSE dir[n]]

\* the directory after a file with the given contents was written to name
WriteFile(dir, name, contents) ==
    [n \in DOMAIN dir \cup {name} |-> IF n = name THEN contents ELSE dir[n]]

\* the directory after Path.unlink() of name
Unlink(dir, name) == [n \in DOMAIN dir \ {name} |-> dir[n]]

AllDigitsIn(s, from, to) ==
    to <= Len(s) /\ \A i \in from..to : s[i] \in Digit

\* re.search(r'(\d+_\d{8}_\d{4})', edf_name) finds a match
HasPattern(edf_name) ==
    \E p \in 1..Len(edf_name) :
        /\ p + 14 <= Len(edf_name)
        /\ edf_name[p] \in Digit
        /\ edf_name[p + 1] = "_"
        /\ AllDigitsIn(edf_name, p + 2, p + 9)
        /\ edf_name[p + 10] = "_"
        /\ AllDigitsIn(edf_name, p + 11, p + 14)

(***************************************************************************)
(* convert_edf_to_edfplus: steps                                           *)
(***************************************************************************)
InitConvVars ==
    /\ pc = "find"
    /\ excel_files = <<>>
    /\ n_records = 0
    /\ record_duration = 0
    /\ header_duration = 0
    /\ raw = [sfreq |-> 0, data |-> <<>>]
    /\ original_duration = 0
    /\ zero_padding_start = NoVal
    /\ target_samples = NoVal
    /\ current_samples = 0
    /\ reference_time = NoVal
    /\ all_events = <<>>
    /\ excel_event_mapping = EmptyDict
    /\ onsets = <<>>
    /\ durations = <<>>
    /\ descriptions = <<>>
    /\ event_status = <<>>
    /\ colF = [f \in 1..Len(sheets) |-> EmptyDict]
    /\ error = ""
    /\ result = None

\* "except Exception as e: return False"
Fail(e) ==
    /\ error' = e
    /\ result' = FALSE
    /\ pc' = "done"

\* 1. find_matching_excel_files: the files are numbered in glob order
FindExcelFiles ==
    /\ pc = "find"
    /\ excel_files' = IF HasPattern(Stem(edf_file.name))
                      THEN [f \in 1..Len(sheets) |-> f] ELSE <<>>
    /\ IF Len(sheets) = 0 \/ ~HasPattern(Stem(edf_file.name))
       THEN /\ result' = FALSE
            /\ pc' = "done"
       ELSE /\ result' = result
            /\ pc' = "header"
    /\ UNCHANGED <<edf, sheets, n_records, record_duration, header_duration,
                   raw, original_duration, zero_padding_start, target_samples,
                   current_samples, reference_time, all_events,
                   excel_event_mapping, onsets, durations, descriptions,
                   event_status, colF, error>>

\* int(header[236:244].decode('ascii').strip()) does not raise
HeaderIntOk(b) == DecodeStrictOk(b) /\ PyIntOk(Strip(b))
\* float(header[244:252].decode('ascii').strip()) does not raise
HeaderFloatOk(b) == DecodeStrictOk(b) /\ PyFloatOk(Strip(b))

\* 2. the header duration, parsed by convert_edf_to_edfplus itself
ReadHeaderDuration ==
    /\ pc = "header"
    /\ IF ~DecodeStrictOk(edf.records)
       THEN Fail("UnicodeDecodeError")
               /\ UNCHANGED <<n_records, record_duration, header_duration>>
       ELSE IF ~HeaderIntOk(edf.records)
       THEN Fail("ValueError")
               /\ UNCHANGED <<n_records, record_duration, header_duration>>
       ELSE IF ~DecodeStrictOk(edf.duration)
       THEN /\ Fail("UnicodeDecodeError")
            /\ n_records' = PyIntVal(Strip(edf.records))
            /\ UNCHANGED <<record_duration, header_duration>>
       ELSE IF ~HeaderFloatOk(edf.duration)
       THEN /\ Fail("ValueError")
            /\ n_records' = PyIntVal(Strip(edf.records))
            /\ UNCHANGED <<record_duration, header_duration>>
       ELSE /\ n_records' = PyIntVal(Strip(edf.records))
            /\ record_duration' = PyFloatVal(Strip(edf.duration))
            /\ header_duration' =
                 PyIntVal(Strip(edf.records)) * PyFloatVal(Strip(edf.duration))
            /\ pc' = "load"
            /\ UNCHANGED <<error, result>>
    /\ UNCHANGED <<edf, sheets, excel_files, raw, original_duration,
                   zero_padding_start, target_samples, current_samples,
                   reference_time, all_events, excel_event_mapping, onsets,
                   durations, descriptions, event_status, colF>>

\* mne.io.read_raw_edf: MNE's decoding of the file is an input
LoadEdf ==
    /\ pc = "load"
    /\ raw' = [sfreq |-> edf.sfreq, data |-> MneData(edf.nchan, edf.nsamp)]
    /\ original_duration' = (edf.nsamp - 1) * Period(edf.sfreq)
    /\ zero_padding_start' = NoVal
    /\ pc' = "reconcile"
    /\ UNCHANGED <<edf, sheets, excel_files, n_records, record_duration,
                   header_duration, target_samples, current_samples,
                   reference_time, all_events, excel_event_mapping, onsets,
                   durations, descriptions, event_status, colF, error, result>>

\* int(header_duration * raw.info['sfreq'])
TargetSamples(hd, sfreq) == PyIntDiv(hd * sfreq, 100)

\* a repair that starts at a difference of 0.01 s already
DurationMismatchFromThreshold(duration_diff) == duration_diff >= DurationThreshold

\* "if duration_diff > 0.01"
DurationMismatch(duration_diff) == duration_diff > DurationThreshold

\* a padding that repeats the last sample of each channel
PadDataRepeatLast(data, padding_samples) ==
    [c \in DOMAIN data |->
        data[c] \o [k \in 1..padding_samples |-> data[c][Len(data[c])]]]

\* the padded matrix: np.concatenate([data, zero_padding], axis=1)
PadData(data, padding_samples) ==
    [c \in DOMAIN data |-> data[c] \o Zeros(padding_samples)]

\* the truncated matrix: data[:, :target_samples]
TruncateData(data, target) ==
    [c \in DOMAIN data |-> PySliceTo(data[c], target)]

\* the duration check and repair
ReconcileDuration ==
    /\ pc = "reconcile"
    /\ LET mne_duration == LastTime(raw)
           duration_diff == Abs(mne_duration - header_duration)
           target == TargetSamples(header_duration, raw.sfreq)
           current == NSamples(raw)
       IN IF DurationMismatch(duration_diff)
          THEN /\ target_samples' = Some(target)
               /\ current_samples' = current
               /\ IF target > current
                  THEN /\ zero_padding_start' = Some(original_duration)
                       /\ raw' = [raw EXCEPT
                                   !.data = PadData(raw.data, target - current)]
                       /\ pc' = "reftime"
                       /\ UNCHANGED <<error, result>>
                  ELSE IF target < current
                  THEN /\ zero_padding_start' = zero_padding_start
                       /\ raw' = [raw EXCEPT
                                   !.data = TruncateData(raw.data, target)]
                       \* raw.times[-1] of a recording without samples
                       /\ IF Len(PySliceTo(raw.data[1], target)) = 0
                          THEN Fail("IndexError")
                          ELSE pc' = "reftime" /\ UNCHANGED <<error, result>>
                  ELSE /\ UNCHANGED <<zero_padding_start, raw, error, result>>
                       /\ pc' = "reftime"
          ELSE /\ UNCHANGED <<target_samples, current_samples,
                              zero_padding_start, raw, error, result>>
               /\ pc' = "reftime"
    /\ UNCHANGED <<edf, sheets, excel_files, n_records, record_duration,
                   header_duration, original_duration, reference_time,
                   all_events, excel_event_mapping, onsets, durations,
                   descriptions, event_status, colF>>

\* 3. get_reference_time_from_edf_metadata: None when the metadata cannot
\* be read
GetReferenceTime ==
    /\ pc = "reftime"
    /\ reference_time' =
         IF edf.start_time = NoVal THEN NoVal
         ELSE Some(parse_edf_time_to_seconds(Val(edf.start_time)))
    /\ pc' = "events"
    /\ UNCHANGED <<edf, sheets, excel_files, n_records, record_duration,
                   header_duration, raw, original_duration,
                   zero_padding_start, target_samples, current_samples,
                   all_events, excel_event_mapping, onsets, durations,
                   descriptions, event_status, colF, error, result>>

\* the DataFrame of a worksheet: "Remove first empty row"
DataFrame(rows) ==
    IF Len(rows) > 0 /\ rows[1].blank THEN Tail(rows) ELSE rows

\* the worksheet row that DataFrame row i (from 0) was read from
SheetRow(rows, i) ==
    IF Len(rows) > 0 /\ rows[1].blank THEN i + 2 ELSE i + 1

has_time(row) == Len(row.time) >= 2
valid_event(row) == row.label \notin {"nan", "None", ""}

\* the event dict of DataFrame row i (from 0) of file f; file and sheet_row
\* are not keys of the dict, they record where the event came from
EventOf(f, rows, i, reference) ==
    LET row == DataFrame(rows)[i + 1]
        time_seconds == parse_time_to_seconds(row.time)
    IN [time_seconds |-> time_seconds,
        relative_time |-> IF reference = NoVal THEN NoVal
                          ELSE Some(time_seconds - Val(reference)),
        event_type |-> row.label,
        row_index |-> i,
        file |-> f,
        sheet_row |-> SheetRow(rows, i)]

\* load_excel_events: the events of the rows i.. of the DataFrame
RECURSIVE LoadFrom(_, _, _, _)
LoadFrom(f, rows, i, reference) ==
    IF i >= Len(DataFrame(rows)) THEN <<>>
    ELSE LET row == DataFrame(rows)[i + 1]
         IN (IF has_time(row) /\ valid_event(row)
             THEN <<EventOf(f, rows, i, reference)>> ELSE <<>>)
            \o LoadFrom(f, rows, i + 1, reference)

load_excel_events(f, rows, reference) == LoadFrom(f, rows, 0, reference)

\* all_events after the files 1..n have been loaded
RECURSIVE AllEventsOf(_, _, _)
AllEventsOf(shs, n, reference) ==
    IF n = 0 THEN <<>>
    ELSE AllEventsOf(shs, n - 1, reference)
            \o load_excel_events(n, shs[n], reference)

\* excel_event_mapping: position in all_events (from 1), as loaded -> file
MappingOf(events) == [i \in 1..Len(events) |-> events[i].file]

\* 4. load the events of every matching Excel file
LoadEvents ==
    /\ pc = "events"
    /\ LET evs == AllEventsOf(sheets, Len(excel_files), reference_time)
       IN /\ all_events' = evs
          /\ excel_event_mapping' = MappingOf(evs)
          /\ IF evs = <<>>
             THEN /\ result' = TRUE
                  /\ pc' = "done"
             ELSE /\ result' = result
                  /\ pc' = "classify"
    /\ UNCHANGED <<edf, sheets, excel_files, n_records, record_duration,
                   header_duration, raw, original_duration,
                   zero_padding_start, target_samples, current_samples,
                   reference_time, onsets, durations, descriptions,
                   event_status, colF, error>>

\* the sort key: x.get('relative_time', x['time_seconds'])
SortKey(e) == IF e.relative_time = NoVal THEN e.time_seconds
              ELSE Val(e.relative_time)

\* an insertion that puts e in front of the elements with its own key
InsertSortedBeforeEqual(sorted, e) ==
    LET n == Cardinality({j \in 1..Len(sorted) : SortKey(sorted[j]) < SortKey(e)})
    IN SubSeq(sorted, 1, n) \o <<e>> \o SubSeq(sorted, n + 1, Len(sorted))

\* e put behind the last element of the sorted list whose key is <= its own
InsertSorted(sorted, e) ==
    LET n == Cardinality({j \in 1..Len(sorted) : SortKey(sorted[j]) <= SortKey(e)})
    IN SubSeq(sorted, 1, n) \o <<e>> \o SubSeq(sorted, n + 1, Len(sorted))

\* list.sort(key=...): ascending and stable
RECURSIVE SortEvents(_)
SortEvents(evs) ==
    IF evs = <<>> THEN <<>>
    ELSE InsertSorted(SortEvents(SubSeq(evs, 1, Len(evs) - 1)), evs[Len(evs)])

\* a zero padding check that lets the boundary itself pass
InZeroPaddingStrict(relative_time, zps) == relative_time > Val(zps)

\* "relative_time >= zero_padding_start" of the zero padding check
InZeroPadding(relative_time, zps) == relative_time >= Val(zps)

\* "relative_time <= actual_duration + tolerance" of the range check
WithinEnd(relative_time, actual_duration) ==
    relative_time <= actual_duration + tolerance

\* an onset that is never pulled back to the end
UnclampedOnset(relative_time, actual_duration) == relative_time

\* the onset appended for an event in range
ClampedOnset(relative_time, actual_duration) ==
    IF relative_time > actual_duration THEN actual_duration ELSE relative_time

\* one pass of the loop over all_events, for the event at position i (from 1);
\* acc holds onsets, durations, descriptions, event_status and ref_time
ClassifyOne(evs, i, acc, actual_duration, zps) ==
    LET event == evs[i]
        fallback_first == event.relative_time = NoVal /\ acc.onsets = <<>>
        ref_time == IF fallback_first THEN event.time_seconds ELSE acc.ref_time
        relative_time ==
            IF event.relative_time # NoVal THEN Val(event.relative_time)
            ELSE IF fallback_first THEN 0
            ELSE event.time_seconds - ref_time
    IN IF zps # NoVal /\ InZeroPadding(relative_time, zps)
       THEN [acc EXCEPT !.ref_time = ref_time,
                        !.event_status = Append(@, "EXCLUDED_ZERO_PADDING")]
       ELSE IF relative_time >= 0 /\ WithinEnd(relative_time, actual_duration)
       THEN [acc EXCEPT !.ref_time = ref_time,
                        !.onsets = Append(@, ClampedOnset(relative_time,
                                                          actual_duration)),
                        !.durations = Append(@, 0),
                        !.descriptions = Append(@, event.event_type),
                        !.event_status = Append(@, "INCLUDED")]
       ELSE [acc EXCEPT !.ref_time = ref_time,
                        !.event_status = Append(@, "EXCLUDED_OUT_OF_RANGE")]

RECURSIVE ClassifyUpTo(_, _, _, _)
ClassifyUpTo(evs, n, actual_duration, zps) ==
    IF n = 0
    THEN [onsets |-> <<>>, durations |-> <<>>, descriptions |-> <<>>,
          event_status |-> <<>>, ref_time |-> 0]
    ELSE ClassifyOne(evs, n, ClassifyUpTo(evs, n - 1, actual_duration, zps),
                     actual_duration, zps)

\* 5. and 6. sort the events, classify them and build the annotations
ClassifyEvents ==
    /\ pc = "classify"
    /\ LET sorted == SortEvents(all_events)
           acc == ClassifyUpTo(sorted, Len(sorted), LastTime(raw),
                               zero_padding_start)
       IN /\ all_events' = sorted
          /\ onsets' = acc.onsets
          /\ durations' = acc.durations
          /\ descriptions' = acc.descriptions
          /\ event_status' = acc.event_status
    /\ pc' = "status"
    /\ UNCHANGED <<edf, sheets, excel_files, n_records, record_duration,
                   header_duration, raw, original_duration,
                   zero_padding_start, target_samples, current_samples,
                   reference_time, excel_event_mapping, colF, error, result>>

\* ws.max_row: an empty worksheet reports one row
MaxRow(rows) == IF Len(rows) = 0 THEN 1 ELSE Len(rows)

\* update_excel_event_status, "if max_col < 6": column F filled with ""
BlankColumnF(rows) == [r \in 1..MaxRow(rows) |-> ""]

\* the files that have an entry in excel_status_updates
UpdatedFiles(statuses, mapping) ==
    {mapping[i] : i \in {j \in 1..Len(statuses) : j \in DOMAIN mapping}}

\* the worksheet row update_excel_event_status writes for a row_index
WrittenRow(row_index) == row_index + 1

\* the file whose worksheet receives the status at position i of event_status
StatusFile(mapping, i) == mapping[i]

\* column F of every file after the status updates 1..n were written
RECURSIVE WriteStatuses(_, _, _, _, _)
WriteStatuses(F, evs, statuses, mapping, n) ==
    IF n = 0
    THEN [f \in DOMAIN F |->
            IF f \in UpdatedFiles(statuses, mapping)
            THEN BlankColumnF(sheets[f]) ELSE F[f]]
    ELSE LET before == WriteStatuses(F, evs, statuses, mapping, n - 1)
         IN IF n \in DOMAIN mapping
            THEN [before EXCEPT ![StatusFile(mapping, n)] =
                    Put(@, WrittenRow(evs[n].row_index), statuses[n])]
            ELSE before

\* 6.5. write the status of every event to the Excel files
UpdateExcelStatus ==
    /\ pc = "status"
    /\ colF' = WriteStatuses(colF, all_events, event_status,
                             excel_event_mapping, Len(event_status))
    /\ pc' = "save"
    /\ UNCHANGED <<edf, sheets, excel_files, n_records, record_duration,
                   header_duration, raw, original_duration,
                   zero_padding_start, target_samples, current_samples,
                   reference_time, all_events, excel_event_mapping, onsets,
                   durations, descriptions, event_status, error, result>>

\* 7. in-place mode: the file is moved to its backup name; shutil.move may
\* raise.  generate_correct_filename is called once, its value is bound to
\* generated
MoveToBackup ==
    /\ pc = "save"
    /\ backup_file = NoVal
    /\ \E generated \in {generate_correct_filename(edf_file)} :
       LET correct_filename == IF generated = NoVal THEN edf_file.name
                               ELSE Val(generated)
           original_stem == Stem(edf_file.name)
           final_stem == Remove(correct_filename, EdfSuffix)
           backup == BackupName(original_stem, final_stem)
       IN \E moved \in BOOLEAN :
            IF ~moved \/ edf_file.name \notin DOMAIN fs
            THEN /\ Fail("OSError")
                 /\ UNCHANGED <<fs, backup_file, output_file>>
            ELSE /\ backup_file' = Some(backup)
                 /\ output_file' = Some(correct_filename)
                 /\ fs' = Move(fs, edf_file.name, backup)
                 /\ UNCHANGED <<pc, error, result>>
    /\ UNCHANGED <<edf_file, fpc, new_filename>>
    /\ UNCHANGED <<edf, sheets, excel_files, n_records, record_duration,
                   header_duration, raw, original_duration,
                   zero_padding_start, target_samples, current_samples,
                   reference_time, all_events, excel_event_mapping, onsets,
                   durations, descriptions, event_status, colF>>

\* mne.export.export_raw(output_file, raw, fmt='edf', overwrite=True), which
\* may raise
ExportRaw ==
    /\ pc = "save"
    /\ backup_file # NoVal
    /\ \E exported \in BOOLEAN :
         IF exported
         THEN /\ fs' = WriteFile(fs, Val(output_file), EdfPlus(Len(onsets)))
              /\ result' = TRUE
              /\ pc' = "done"
              /\ error' = error
         ELSE /\ fs' = fs
              /\ Fail("OSError")
    /\ UNCHANGED <<edf_file, fpc, new_filename, backup_file, output_file>>
    /\ UNCHANGED <<edf, sheets, excel_files, n_records, record_duration,
                   header_duration, raw, original_duration,
                   zero_padding_start, target_samples, current_samples,
                   reference_time, all_events, excel_event_mapping, onsets,
                   durations, descriptions, event_status, colF>>

\* 7. the backup, then the export
SaveEdfPlus ==
    \/ MoveToBackup
    \/ ExportRaw

(***************************************************************************)
(* rollback.py: rollback_edf_files                                         *)
(***************************************************************************)
\* glob "**/*_backup_*.edf"
IsBackupName(name) ==
    /\ Len(name) >= Len(EdfSuffix)
    /\ SubSeq(name, Len(name) - Len(EdfSuffix) + 1, Len(name)) = EdfSuffix
    /\ \E p \in 1..Len(name) :
         /\ OccursAt(name, BackupSeparator, p)
         /\ p + Len(BackupSeparator) - 1 <= Len(name) - Len(EdfSuffix)

\* original_name of a backup stem
OriginalName(backup_stem) ==
    IF Find(backup_stem, BackupSeparator) # 0
    THEN Split(backup_stem, BackupSeparator)[1] \o EdfSuffix
    ELSE Remove(backup_stem, <<"_", "b", "a", "c", "k", "u", "p">>) \o EdfSuffix

\* edfplus_path of a backup stem, NoVal for None
FinalName(backup_stem) ==
    IF Find(backup_stem, BackupSeparator) # 0
    THEN Some(Split(backup_stem, BackupSeparator)[2] \o EdfSuffix)
    ELSE NoVal

\* the search for backup files; rollback is run once the conversion is over
FindBackupFiles ==
    /\ rpc = "find"
    /\ pc = "done"
    /\ backup_files' = {n \in DOMAIN fs : IsBackupName(n)}
    /\ rpc' = IF \E n \in DOMAIN fs : IsBackupName(n) THEN "loop" ELSE "done"
    /\ UNCHANGED <<fs, backup_path, original_path, edfplus_path,
                   restored_count, removed_edfplus_count>>

\* one pass of "for backup_file in backup_files", in the order of the glob;
\* a move of a file that is gone raises and is logged
RestoreBackup ==
    /\ rpc = "loop"
    /\ \E b \in backup_files :
         LET backup_stem == Stem(b)
             original_name == OriginalName(backup_stem)
             final == FinalName(backup_stem)
             restored == Move(fs, b, original_name)
         IN /\ backup_path' = Some(b)
            /\ original_path' = Some(original_name)
            /\ edfplus_path' = final
            /\ backup_files' = backup_files \ {b}
            /\ rpc' = IF backup_files = {b} THEN "done" ELSE "loop"
            /\ IF b \notin DOMAIN fs
               THEN UNCHANGED <<fs, restored_count, removed_edfplus_count>>
               ELSE /\ restored_count' = restored_count + 1
                    /\ IF final # NoVal /\ Val(final) \in DOMAIN restored
                       THEN /\ fs' = Unlink(restored, Val(final))
                            /\ removed_edfplus_count' =
                                 removed_edfplus_count + 1
                       ELSE /\ fs' = restored
                            /\ UNCHANGED removed_edfplus_count

(***************************************************************************)
(* process_all_edf_files                                                   *)
(***************************************************************************)
\* "_backup" and "_with_events"
BackupMark == <<"_", "b", "a", "c", "k", "u", "p">>
WithEventsMark ==
    <<"_", "w", "i", "t", "h", "_", "e", "v", "e", "n", "t", "s">>

\* the filter of the files found
ToProcess(name) == Find(name, BackupMark) = 0 /\ Find(name, WithEventsMark) = 0

\* every order of the elements of the set S
Orders(S) ==
    {o \in [1..Cardinality(S) -> S] :
        \A i, j \in 1..Cardinality(S) : i # j => o[i] # o[j]}

\* the search for EDF files: rglob yields them in an order of its own
DiscoverFiles ==
    /\ bpc = "discover"
    /\ edf_files' \in Orders({n \in listing : ToProcess(n)})
    /\ bpc' = IF \E n \in listing : ToProcess(n) THEN "loop" ELSE "done"
    /\ UNCHANGED <<listing, success_count, failed_files, outcomes>>

\* a count that leaves out the files whose conversion raised
FailedUnlessRaised(outcome) == outcome = "False"

\* the file goes to failed_files: the else branch and the except branch
Failed(outcome) == outcome # "True"

\* the rest of a pass of the loop, with the outcome of the call
Attempted(outcome) ==
    /\ LET edf_path == edf_files[Len(outcomes) + 1]
       IN /\ outcomes' = Append(outcomes, outcome)
          /\ success_count' =
               IF outcome = "True" THEN success_count + 1 ELSE success_count
          /\ failed_files' =
               IF Failed(outcome) THEN Append(failed_files, edf_path)
               ELSE failed_files
    /\ bpc' = IF Len(outcomes) + 1 = Len(edf_files) THEN "done" ELSE "loop"
    /\ UNCHANGED <<listing, edf_files>>

\* one pass of the loop: convert_edf_to_edfplus returns True or False, or
\* raises an Exception
ProcessFile ==
    /\ bpc = "loop"
    /\ \E outcome \in {"True", "False", "raised"} : Attempted(outcome)

(***************************************************************************)
(* Inputs and specifications                                               *)
(***************************************************************************)
MaxSamples == 4
MaxChannels == 2
MaxFiles == 2
MaxRows == 2

\* the text "00:00:SS.ss" with s hundredths of a second, split at ':'
T(s) == <<Num(0), Num(0), Num(s)>>

\* record count fields: blank, no number, signed, numbers, a non-ASCII byte
RecordTexts ==
    { <<" ", " ">>, <<"x">>, <<"-", "1">>, <<"1">>, <<"3">>, <<"5">>,
      <<"0x80", "3">> }

\* record duration fields: 0.01 s, 0.03 s, no number
DurationTexts == { <<"0", ".", "0", "1">>, <<"0", ".", "0", "3">>, <<"x">> }

\* sampling rates with a whole number of ticks per sample
SampleRates == {100, 25}

\* start time "00.00.01" split at '.'
StartTime1 == <<Num(0), Num(0), Num(100)>>
\* start time "00.00.00" split at '.'
StartTime0 == <<Num(0), Num(0), Num(0)>>

EdfFiles ==
    [records : RecordTexts, duration : DurationTexts, sfreq : SampleRates,
     nchan : 1..MaxChannels, nsamp : 1..MaxSamples,
     start_time : {Some(StartTime1)}]

\* no matching Excel file, or one file with one event 0.01 s after the start
FewSheets == { <<>>, << <<Row(T(101), "A")>> >> }

\* header duration 0.05 s at 100 Hz; MNE decodes 3 samples (pad) or 5 samples
\* (no repair); start time 1 s, 0 s or unreadable
EventEdfFiles ==
    [records : {<<"5">>}, duration : {<<"0", ".", "0", "1">>}, sfreq : {100},
     nchan : {1}, nsamp : {3, 5},
     start_time : {Some(StartTime1), Some(StartTime0), NoVal}]

\* the rows tried: an empty row, rows without a time or without a label, a
\* time of only two parts (parsed as 0 s), and times from 1.01 s to 1.15 s
RowChoices ==
    { BlankRow, Row(<<NaN>>, "A"), Row(T(101), "nan"),
      Row(<<Num(0), Num(0)>>, "B"),
      Row(T(101), "A"), Row(T(102), "A"), Row(T(102), "B"),
      Row(T(114), "B"), Row(T(115), "A") }

\* every list of k worksheets with at most budget rows in all
RECURSIVE SheetsWith(_, _)
SheetsWith(k, budget) ==
    IF k = 0 THEN { <<>> }
    ELSE UNION { { Append(rest, rows) :
                     rest \in SheetsWith(k - 1, budget - n),
                     rows \in [1..n -> RowChoices] } : n \in 0..budget }

AllSheets == UNION { SheetsWith(k, MaxRows) : k \in 0..MaxFiles }

InitIdleHeader ==
    /\ hpc = "idle"
    /\ fieldName = None
    /\ fieldText = <<>>
    /\ header = EmptyDict
    /\ signal_info = EmptyDict
    /\ signals = <<>>

\* no file is being decoded or scaled
InitIdleDecode ==
    /\ file_bytes = 0
    /\ fpos = 0
    /\ edf_data = <<>>
    /\ rec = 0
    /\ sig = 0
    /\ data_float = <<>>
    /\ herror = ""

\* the text of a number below 100 as two characters
TwoDigits(n) == ZeroPadded(n, 2)

\* the text "HH.MM.SS" of start time parts holding whole numbers
TimeTextOf(parts) ==
    TwoDigits(parts[1].v \div 100) \o <<".">> \o TwoDigits(parts[2].v \div 100)
        \o <<".">> \o TwoDigits(parts[3].v \div 100)

\* the parts of a start time text split at '.', as float() reads them
TimePartsOf(text) ==
    LET parts == Split(text, <<".">>)
    IN [i \in 1..Len(parts) |->
          IF PyFloatOk(parts[i]) THEN Num(PyFloatVal(parts[i])) ELSE NaN]

\* "5"
Patient5 == <<"5">>
\* "01.07.13"
Date010713 == <<"0", "1", ".", "0", "7", ".", "1", "3">>
\* "_20130701_2359"
Stamp == <<"_", "2", "0", "1", "3", "0", "7", "0", "1", "_", "2", "3", "5", "9">>

\* the file of the header e: named "5_20130701_2359.edf", patient "5",
\* start date 01.07.13, the start time of e
FileOf(e) ==
    [name |-> Patient5 \o Stamp \o EdfSuffix,
     metadata |->
        IF e.start_time = NoVal THEN NoVal
        ELSE Some([patient_id |-> Patient5, start_date |-> Date010713,
                   start_time |-> TimeTextOf(Val(e.start_time))])]

\* the directory holds the EDF file; nothing was moved or exported
InitFileVars ==
    /\ fpc = "idle"
    /\ new_filename = NoVal
    /\ fs = [n \in {edf_file.name} |-> Recording]
    /\ backup_file = NoVal
    /\ output_file = NoVal

InitRollbackVars ==
    /\ backup_files = {}
    /\ backup_path = NoVal
    /\ original_path = NoVal
    /\ edfplus_path = NoVal
    /\ restored_count = 0
    /\ removed_edfplus_count = 0

\* process_all_edf_files is not run
InitIdleBatch ==
    /\ bpc = "idle"
    /\ listing = {}
    /\ edf_files = <<>>
    /\ success_count = 0
    /\ failed_files = <<>>
    /\ outcomes = <<>>

\* the file of the conversion; rollback.py is not run
InitIdleFiles ==
    /\ edf_file = FileOf(edf)
    /\ InitFileVars
    /\ rpc = "idle"
    /\ InitRollbackVars
    /\ InitIdleBatch

NextConvert ==
    /\ \/ /\ \/ FindExcelFiles
             \/ ReadHeaderDuration
             \/ LoadEdf
             \/ ReconcileDuration
             \/ GetReferenceTime
             \/ LoadEvents
             \/ ClassifyEvents
             \/ UpdateExcelStatus
          /\ UNCHANGED fvars
       \/ SaveEdfPlus
    /\ UNCHANGED <<hvars, dvars, rvars, bvars>>

\* convert_edf_to_edfplus over many headers and decoded lengths
Init ==
    /\ edf \in EdfFiles
    /\ sheets \in FewSheets
    /\ InitConvVars
    /\ InitIdleHeader
    /\ InitIdleDecode
    /\ InitIdleFiles

Next == NextConvert

Spec == Init /\ [][Next]_vars

\* convert_edf_to_edfplus over many worksheets
InitEvents ==
    /\ edf \in EventEdfFiles
    /\ sheets \in AllSheets
    /\ InitConvVars
    /\ InitIdleHeader
    /\ InitIdleDecode
    /\ InitIdleFiles

SpecEvents == InitEvents /\ [][NextConvert]_vars

\* read_edf_file_direct
InitHeader ==
    /\ InitHeaderVars
    /\ edf = [records |-> <<>>, duration |-> <<>>, sfreq |-> 100, nchan |-> 1,
              nsamp |-> 1, start_time |-> NoVal]
    /\ sheets = <<>>
    /\ InitConvVars
    /\ InitIdleDecode
    /\ InitIdleFiles

NextHeader ==
    /\ \/ ReadMainField
       \/ ReadSignalField
    /\ UNCHANGED <<cvars, dvars, fvars, rvars, bvars>>

SpecHeader == InitHeader /\ [][NextHeader]_vars

\* no conversion is running
InitIdleConvert ==
    /\ edf = [records |-> <<>>, duration |-> <<>>, sfreq |-> 100, nchan |-> 1,
              nsamp |-> 1, start_time |-> NoVal]
    /\ sheets = <<>>
    /\ InitConvVars
    /\ InitIdleFiles

MaxRecords == 2
MaxSpr == 2

\* a parsed main header with the given record count, record duration and
\* signal count
HeaderWith(records, duration, nsignals) ==
    [f \in {MainFields[i] : i \in 1..Len(MainFields)} |->
        CASE f = "records" -> records
          [] f = "duration" -> duration
          [] f = "nsignals" -> nsignals
          [] OTHER -> 0]

\* parsed signal headers without calibration: samples per record from -1
\* ("-1" is a number to int()) to MaxSpr
DecodeSignals ==
    [physical_min : {0}, physical_max : {0}, digital_min : {0},
     digital_max : {0}, samples_per_record : -1..MaxSpr]

\* the samples a complete file holds for the header h with signals sigs
RECURSIVE RecordSamples(_, _)
RecordSamples(sigs, n) ==
    IF n = 0 THEN 0
    ELSE RecordSamples(sigs, n - 1)
            + (IF sigs[n]["samples_per_record"] > 0
               THEN sigs[n]["samples_per_record"] ELSE 0)

DeclaredSamples(h, sigs) ==
    IF h["records"] > 0 THEN h["records"] * RecordSamples(sigs, Len(sigs))
    ELSE 0

\* read_edf_file_direct behind the headers: record counts and signal counts
\* from -1, files from empty to one sample more than declared
InitDecode ==
    /\ hpc = "data"
    /\ fieldName = None
    /\ fieldText = <<>>
    /\ signal_info = EmptyDict
    /\ \E r \in -1..MaxRecords, n \in -1..MaxChannels :
         /\ header = HeaderWith(r, 100, n)
         /\ signals \in [1..n -> DecodeSignals]
    /\ file_bytes \in 0..(2 * DeclaredSamples(header, signals) + 2)
    /\ fpos = 0
    /\ edf_data = <<>>
    /\ rec = 0
    /\ sig = 0
    /\ data_float = <<>>
    /\ herror = ""
    /\ InitIdleConvert

NextDecode ==
    /\ \/ AllocateGrid
       \/ ReadBlock
    /\ UNCHANGED <<cvars, fvars, rvars, bvars>>

SpecDecode == InitDecode /\ [][NextDecode]_vars

\* the stored sample of channel c at index k
StoredSample(c, k) == k - c

\* parsed signal headers with physical limits -1.0, 0.0, 1.0 and digital
\* limits -1, 0, 1
ScaleSignals ==
    [physical_min : {-100, 0}, physical_max : {0, 100}, digital_min : {-1, 0},
     digital_max : {0, 1}, samples_per_record : {1}]

\* create_mne_raw_from_edf_data on a decoded file of two records
InitScale ==
    /\ hpc = "info"
    /\ fieldName = None
    /\ fieldText = <<>>
    /\ signal_info = EmptyDict
    /\ \E d \in {0, 100}, n \in 0..MaxChannels :
         /\ header = HeaderWith(2, d, n)
         /\ signals \in [1..n -> ScaleSignals]
    /\ edf_data = [c \in 1..Len(signals) |-> [k \in 1..2 |-> StoredSample(c, k)]]
    /\ file_bytes = 0
    /\ fpos = 0
    /\ rec = 0
    /\ sig = 0
    /\ data_float = <<>>
    /\ herror = ""
    /\ InitIdleConvert

NextScale ==
    /\ \/ CreateInfo
       \/ ApplyScaling
    /\ UNCHANGED <<cvars, fvars, rvars, bvars>>

SpecScale == InitScale /\ [][NextScale]_vars

\* file names: a digit run in front of an underscore at the start, behind
\* letters, behind a digit run that ends at a letter; none; an underscore
\* in front of the digits only
FileNames ==
    { <<"5", "7", "_", "x">> \o EdfSuffix,
      <<"a", "b", "1", "2", "_", "3", "_">> \o EdfSuffix,
      <<"1", "2", "3", "a", "4", "5", "_", "x">> \o EdfSuffix,
      <<"1", "2">> \o EdfSuffix,
      <<"_", "x">> \o EdfSuffix,
      <<"x", "_", "1">> \o EdfSuffix }

\* patient fields: blank, the sentinel, the sentinel between blanks, an
\* identifier between blanks, the first word of the sentinel
PatientFields ==
    { <<" ", " ">>, NoDatabaseRecord, <<" ">> \o NoDatabaseRecord \o <<" ">>,
      <<" ", "P", "7", " ">>, <<"N", "o">> }

\* start dates: 01.07.13, 1.7.49, 31.12.50, 01.01.99, 01.07.00, and texts
\* the conversion rejects: 01.07, xx.07.13, 01..13, blank
DateFields ==
    { Date010713,
      <<"1", ".", "7", ".", "4", "9">>,
      <<"3", "1", ".", "1", "2", ".", "5", "0">>,
      <<"0", "1", ".", "0", "1", ".", "9", "9">>,
      <<"0", "1", ".", "0", "7", ".", "0", "0">>,
      <<"0", "1", ".", "0", "7">>,
      <<"x", "x", ".", "0", "7", ".", "1", "3">>,
      <<"0", "1", ".", ".", "1", "3">>,
      <<" ", " ">> }

\* start times: 23.59.00, 7.5.xx, 00.00.00, and texts the conversion
\* rejects: 23.59, 2x.59.00
TimeFields ==
    { <<"2", "3", ".", "5", "9", ".", "0", "0">>,
      <<"7", ".", "5", ".", "x", "x">>,
      <<"0", "0", ".", "0", "0", ".", "0", "0">>,
      <<"2", "3", ".", "5", "9">>,
      <<"2", "x", ".", "5", "9", ".", "0", "0">> }

\* the files generate_correct_filename is called on; NoVal is a file that
\* cannot be read
FilenameInputs ==
    [name : FileNames,
     metadata : {NoVal} \cup
        {Some(m) : m \in [patient_id : PatientFields, start_date : DateFields,
                          start_time : TimeFields]}]

\* generate_correct_filename on its own
InitFilename ==
    /\ edf_file \in FilenameInputs
    /\ fpc = "call"
    /\ new_filename = NoVal
    /\ fs = [n \in {edf_file.name} |-> Recording]
    /\ backup_file = NoVal
    /\ output_file = NoVal
    /\ rpc = "idle"
    /\ InitRollbackVars
    /\ edf = [records |-> <<>>, duration |-> <<>>, sfreq |-> 100, nchan |-> 1,
              nsamp |-> 1, start_time |-> NoVal]
    /\ sheets = <<>>
    /\ InitConvVars
    /\ InitIdleHeader
    /\ InitIdleDecode
    /\ InitIdleBatch

NextFilename ==
    /\ GenerateCorrectFilename
    /\ UNCHANGED <<hvars, cvars, dvars, rvars, bvars>>

SpecFilename == InitFilename /\ [][NextFilename]_vars

\* names of EDF files that carry the pattern of find_matching_excel_files:
\* the canonical name of the header, another patient number, a stem that
\* holds "_backup_" itself; and a name without the pattern
ConvertedNames ==
    { Patient5 \o Stamp \o EdfSuffix,
      <<"7">> \o Stamp \o EdfSuffix,
      <<"7">> \o Stamp \o BackupSeparator \o <<"x">> \o EdfSuffix,
      <<"x">> \o EdfSuffix }

\* patient fields: "5", blank, the sentinel, an identifier that holds
\* "_backup_"
ConvertedPatients ==
    { Patient5, <<" ">>, NoDatabaseRecord,
      <<"5">> \o BackupSeparator \o <<"6">> }

\* the files convert_edf_to_edfplus is called on
ConvertedFiles ==
    [name : ConvertedNames,
     metadata :
        {Some(m) : m \in [patient_id : ConvertedPatients,
                          start_date : {Date010713,
                                        <<"x", "x", ".", "0", "7", ".", "1", "3">>},
                          start_time : {<<"2", "3", ".", "5", "9", ".", "0", "0">>,
                                        <<"0", "0", ".", "0", "0", ".", "0", "1">>}]}]

\* a header of 5 records of 0.01 s that MNE decodes to 5 samples at 100 Hz
EdfOf(file) ==
    [records |-> <<"5">>, duration |-> <<"0", ".", "0", "1">>, sfreq |-> 100,
     nchan |-> 1, nsamp |-> 5,
     start_time |->
        Some(TimePartsOf(Val(extract_edf_metadata(file)).start_time))]

\* convert_edf_to_edfplus on a file, rollback_edf_files once it is over
InitFiles ==
    /\ edf_file \in ConvertedFiles
    /\ edf = EdfOf(edf_file)
    /\ sheets \in FewSheets
    /\ InitConvVars
    /\ InitFileVars
    /\ rpc = "find"
    /\ InitRollbackVars
    /\ InitIdleHeader
    /\ InitIdleDecode
    /\ InitIdleBatch

NextFiles ==
    \/ NextConvert
    \/ /\ \/ FindBackupFiles
          \/ RestoreBackup
       /\ UNCHANGED <<hvars, cvars, dvars, edf_file, fpc, new_filename,
                      backup_file, output_file, bvars>>

SpecFiles == InitFiles /\ [][NextFiles]_vars

MaxBatchFiles == 3

\* the names in the directory tree: "1.edf", "2.edf", ..., a backup file and
\* a file of an earlier export
BatchNames ==
    {IntText(k) \o EdfSuffix : k \in 1..MaxBatchFiles}
        \cup {<<"1">> \o BackupSeparator \o <<"2">> \o EdfSuffix,
              <<"1">> \o WithEventsMark \o EdfSuffix}

\* process_all_edf_files on a directory tree
InitBatch ==
    /\ bpc = "discover"
    /\ listing \in SUBSET BatchNames
    /\ edf_files = <<>>
    /\ success_count = 0
    /\ failed_files = <<>>
    /\ outcomes = <<>>
    /\ edf = [records |-> <<>>, duration |-> <<>>, sfreq |-> 100, nchan |-> 1,
              nsamp |-> 1, start_time |-> NoVal]
    /\ sheets = <<>>
    /\ InitConvVars
    /\ edf_file = FileOf(edf)
    /\ InitFileVars
    /\ rpc = "idle"
    /\ InitRollbackVars
    /\ InitIdleHeader
    /\ InitIdleDecode

NextBatch ==
    /\ \/ DiscoverFiles
       \/ ProcessFile
    /\ UNCHANGED <<hvars, cvars, dvars, fvars, rvars>>

SpecBatch == InitBatch /\ [][NextBatch]_vars

(***************************************************************************)
(* process_all_edf_files, run several times                                *)
(***************************************************************************)
\* the patient field of a file MNE exported without subject information
XPatient == <<"X", " ", "X", " ", "X", " ", "X">>

\* start time "23.59.00"
Time235900 == <<"2", "3", ".", "5", "9", ".", "0", "0">>

\* what the header of a file of the directory may hold: a recording has its
\* own fields; an export has the date and time of the recording and the
\* patient field MNE wrote, which is the recording's or "X X X X"
HeadersOf(name, contents) ==
    {[name |-> name,
      metadata |-> Some([patient_id |-> p, start_date |-> Date010713,
                         start_time |-> Time235900])] :
        p \in IF contents.kind = "edfplus" THEN {Patient5, XPatient}
              ELSE {Patient5}}

\* one pass of the loop, the call: convert_edf_to_edfplus(edf_file) starts on
\* the next file; the directory holds one Excel file with one event for
\* every pattern
CallConvert ==
    /\ bpc = "loop"
    /\ edf_files[Len(outcomes) + 1] \in DOMAIN fs
    /\ \E file \in HeadersOf(edf_files[Len(outcomes) + 1],
                              fs[edf_files[Len(outcomes) + 1]]) :
         /\ edf_file' = file
         /\ edf' = EdfOf(file)
    /\ sheets' = << <<Row(T(101), "A")>> >>
    /\ bpc' = "convert"
    /\ pc' = "find"
    /\ excel_files' = <<>>
    /\ n_records' = 0
    /\ record_duration' = 0
    /\ header_duration' = 0
    /\ raw' = [sfreq |-> 0, data |-> <<>>]
    /\ original_duration' = 0
    /\ zero_padding_start' = NoVal
    /\ target_samples' = NoVal
    /\ current_samples' = 0
    /\ reference_time' = NoVal
    /\ all_events' = <<>>
    /\ excel_event_mapping' = EmptyDict
    /\ onsets' = <<>>
    /\ durations' = <<>>
    /\ descriptions' = <<>>
    /\ event_status' = <<>>
    /\ colF' = <<EmptyDict>>
    /\ error' = ""
    /\ result' = None
    /\ backup_file' = NoVal
    /\ output_file' = NoVal
    /\ UNCHANGED <<fpc, new_filename, fs, listing, edf_files, success_count,
                   failed_files, outcomes>>

\* one pass of the loop, the return: convert_edf_to_edfplus catches every
\* Exception itself
ReturnFromConvert ==
    /\ bpc = "convert"
    /\ pc = "done"
    /\ Attempted(IF result = TRUE THEN "True" ELSE "False")
    /\ UNCHANGED <<cvars, fvars>>

\* process_all_edf_files is run again on the directory as it is now
RunAgain ==
    /\ bpc = "done"
    /\ listing' = DOMAIN fs
    /\ bpc' = "discover"
    /\ edf_files' = <<>>
    /\ success_count' = 0
    /\ failed_files' = <<>>
    /\ outcomes' = <<>>
    /\ UNCHANGED <<cvars, fvars>>

\* the recordings found in the directory: one that has its canonical name,
\* one named after another patient number
RunFiles ==
    UNION {HeadersOf(n, Recording) :
             n \in {Patient5 \o Stamp \o EdfSuffix, <<"7">> \o Stamp \o EdfSuffix}}

\* process_all_edf_files, run again and again on a directory that holds one
\* recording at first
InitRuns ==
    /\ edf_file \in RunFiles
    /\ edf = EdfOf(edf_file)
    /\ sheets = << <<Row(T(101), "A")>> >>
    /\ InitConvVars
    /\ InitFileVars
    /\ rpc = "idle"
    /\ InitRollbackVars
    /\ InitIdleHeader
    /\ InitIdleDecode
    /\ bpc = "discover"
    /\ listing = DOMAIN fs
    /\ edf_files = <<>>
    /\ success_count = 0
    /\ failed_files = <<>>
    /\ outcomes = <<>>

NextRuns ==
    \/ /\ \/ DiscoverFiles
          \/ RunAgain
       /\ UNCHANGED <<hvars, cvars, dvars, fvars, rvars>>
    \/ /\ \/ CallConvert
          \/ ReturnFromConvert
       /\ UNCHANGED <<hvars, dvars, rvars>>
    \/ /\ bpc = "convert"
       /\ NextConvert

SpecRuns == InitRuns /\ [][NextRuns]_vars

(***************************************************************************)
(* Properties                                                              *)
(***************************************************************************)
Statuses == {"INCLUDED", "EXCLUDED_OUT_OF_RANGE", "EXCLUDED_ZERO_PADDING"}

\* the events have been classified
Classified == pc \in {"status", "save", "done"} /\ event_status # <<>>

\* the duration check has run and the conversion went on
Reconciled == pc \in {"reftime", "events", "classify", "status", "save"}

\* actual_duration, final_duration: raw.times[-1] after the repair
final_duration == LastTime(raw)

Included(i) == event_status[i] = "INCLUDED"

\* the position among the annotations of the included event at position i
AnnotationOf(i) == Cardinality({j \in 1..i : Included(j)})

\* the relative offset the classification uses for the event at position i:
\* time - anchor; without an anchor, the time since the first included event
\* (0 up to and including that event)
RelativeOffset(i) ==
    IF all_events[i].relative_time # NoVal THEN Val(all_events[i].relative_time)
    ELSE IF \A j \in 1..(i - 1) : ~Included(j) THEN 0
    ELSE LET first == CHOOSE j \in 1..(i - 1) :
                        Included(j) /\ \A k \in 1..(j - 1) : ~Included(k)
         IN all_events[i].time_seconds - all_events[first].time_seconds

\* the zero padding exclusion applies to the event at position i
PaddingApplies(i) ==
    zero_padding_start # NoVal /\ RelativeOffset(i) >= Val(zero_padding_start)

\* C1: when no zero padding exclusion applies, an event with relative offset
\* in [0, final_duration] is INCLUDED with that offset as onset; in
\* (final_duration, final_duration + 0.1] it is INCLUDED with onset
\* final_duration; below 0 or above final_duration + 0.1 it is
\* EXCLUDED_OUT_OF_RANGE; only included events have an annotation.
C1_Classification ==
    Classified =>
        /\ Len(onsets) = AnnotationOf(Len(all_events))
        /\ \A i \in 1..Len(all_events) :
             ~PaddingApplies(i) =>
                LET r == RelativeOffset(i)
                IN IF 0 <= r /\ r <= final_duration
                   THEN Included(i) /\ onsets[AnnotationOf(i)] = r
                   ELSE IF final_duration < r /\ r <= final_duration + tolerance
                   THEN Included(i) /\ onsets[AnnotationOf(i)] = final_duration
                   ELSE event_status[i] = "EXCLUDED_OUT_OF_RANGE"

\* an event in the tolerance window was clamped, next to one out of range
C1_Witness ==
    /\ Classified
    /\ zero_padding_start = NoVal
    /\ \E i, j \in 1..Len(all_events) :
         /\ RelativeOffset(i) > final_duration
         /\ Included(i)
         /\ onsets[AnnotationOf(i)] = final_duration
         /\ event_status[j] = "EXCLUDED_OUT_OF_RANGE"

\* the recording was padded by the duration repair
Padded == NSamples(raw) > edf.nsamp

\* C2: when the recording was padded, every event with relative offset >=
\* zero_padding_start is EXCLUDED_ZERO_PADDING, also when it is in range, and
\* has no annotation; when it was not padded, no event is
\* EXCLUDED_ZERO_PADDING.
C2_ZeroPadding ==
    Classified =>
        /\ Padded <=> zero_padding_start # NoVal
        /\ Len(onsets) = AnnotationOf(Len(all_events))
        /\ \A i \in 1..Len(all_events) :
             IF Padded
             THEN RelativeOffset(i) >= Val(zero_padding_start)
                    => event_status[i] = "EXCLUDED_ZERO_PADDING"
             ELSE event_status[i] # "EXCLUDED_ZERO_PADDING"

\* an event exactly at zero_padding_start, inside the range, was excluded
C2_Witness ==
    /\ Classified
    /\ Padded
    /\ \E i \in 1..Len(all_events) :
         /\ RelativeOffset(i) = Val(zero_padding_start)
         /\ RelativeOffset(i) <= final_duration
         /\ event_status[i] = "EXCLUDED_ZERO_PADDING"

\* the status updates have been written to the worksheets
StatusWritten == pc \in {"save", "done"} /\ event_status # <<>>

\* C3: after the conversion, column F of each retained event's own file, at
\* the event's own worksheet row, holds the status computed for that event.
C3_StatusAtOrigin ==
    StatusWritten =>
        \A i \in 1..Len(all_events) :
            LET e == all_events[i]
            IN /\ e.sheet_row \in DOMAIN colF[e.file]
               /\ colF[e.file][e.sheet_row] = event_status[i]

\* C4: after a pad, every sample at an index >= the original sample count is
\* zero in every channel, the samples below are unchanged, and
\* zero_padding_start is the measured duration of the recording before the pad.
C4_PadZeros ==
    (Reconciled /\ Padded) =>
        /\ zero_padding_start = Some((edf.nsamp - 1) * Period(edf.sfreq))
        /\ current_samples = edf.nsamp
        /\ \A c \in 1..edf.nchan :
             /\ Len(raw.data[c]) = Val(target_samples)
             /\ \A k \in 1..Len(raw.data[c]) :
                  raw.data[c][k] = IF k > edf.nsamp THEN 0 ELSE MneSample(c, k)

\* two channels were padded by two samples or more
C4_Witness ==
    /\ Reconciled
    /\ Padded
    /\ edf.nchan = 2
    /\ NSamples(raw) >= edf.nsamp + 2
    /\ edf.nsamp >= 2

\* C5: when measured and header duration differ by at most 0.01 s, the
\* repair does nothing: the sample matrix is what was decoded and
\* zero_padding_start is unset.
C5_NoRepair ==
    (Reconciled /\ Abs(original_duration - header_duration) <= DurationThreshold)
        => /\ raw.data = MneData(edf.nchan, edf.nsamp)
           /\ zero_padding_start = NoVal
           /\ target_samples = NoVal

\* the durations differ by exactly 0.01 s and the sample counts differ
C5_Witness ==
    /\ Reconciled
    /\ Abs(original_duration - header_duration) = DurationThreshold
    /\ TargetSamples(header_duration, raw.sfreq) # edf.nsamp
    /\ raw.data = MneData(edf.nchan, edf.nsamp)

\* round(a / b) for b > 0: to the nearest integer, halves to the even one
PyRound(a, b) ==
    LET q == a \div b
        twice == 2 * (a - q * b)
    IN IF twice < b THEN q
       ELSE IF twice > b THEN q + 1
       ELSE IF q % 2 = 0 THEN q ELSE q + 1

\* C6: when the durations differ by more than 0.01 s, the target sample
\* count is round(header_duration * sample_rate), and after a pad or a
\* truncate every channel has exactly that many samples.
C6_TargetRounded ==
    (Reconciled /\ target_samples # NoVal) =>
        /\ Val(target_samples) = PyRound(header_duration * raw.sfreq, 100)
        /\ Val(target_samples) # current_samples =>
             \A c \in 1..edf.nchan : Len(raw.data[c]) = Val(target_samples)

\* the events as load_excel_events delivered them, before the sort
LoadedEvents == AllEventsOf(sheets, Len(excel_files), reference_time)

\* e was read before d: from an earlier file, or an earlier row of the file
ReadBefore(e, d) ==
    e.file < d.file \/ (e.file = d.file /\ e.sheet_row < d.sheet_row)

\* C7: there is one annotation per INCLUDED event and none for the others,
\* with duration 0 and the event's label as description; the onsets are in
\* ascending order, also after clamping; events of equal relative offset
\* keep the order of their rows.
C7_Annotations ==
    Classified =>
        /\ Len(onsets) = AnnotationOf(Len(all_events))
        /\ Len(durations) = Len(onsets)
        /\ Len(descriptions) = Len(onsets)
        /\ \A i \in 1..Len(all_events) :
             Included(i) =>
                /\ durations[AnnotationOf(i)] = 0
                /\ descriptions[AnnotationOf(i)] = all_events[i].event_type
        /\ \A k \in 1..(Len(onsets) - 1) : onsets[k] <= onsets[k + 1]
        /\ \A loaded \in {LoadedEvents} :
             /\ Len(all_events) = Len(loaded)
             /\ \A i \in 1..Len(loaded) :
                  \E j \in 1..Len(all_events) : all_events[j] = loaded[i]
        /\ \A i, j \in 1..Len(all_events) :
             (i < j /\ SortKey(all_events[i]) = SortKey(all_events[j]))
                => ReadBefore(all_events[i], all_events[j])

\* two included events of equal offset and different labels, the second
\* loaded from a later row
C7_Witness ==
    /\ Classified
    /\ \E i, j \in 1..Len(all_events) :
         /\ i < j
         /\ Included(i) /\ Included(j)
         /\ SortKey(all_events[i]) = SortKey(all_events[j])
         /\ all_events[i].event_type # all_events[j].event_type
         /\ onsets[AnnotationOf(i)] = onsets[AnnotationOf(j)]

\* worksheet row r of file f was dropped by load_excel_events
Dropped(f, r) ==
    LET row == sheets[f][r]
    IN row.blank \/ ~has_time(row) \/ ~valid_event(row)

\* C8: a row without ':' in its time or without a label is not in the event
\* list, has no annotation, and the conversion never writes a status to it.
C8_DroppedRowsNoStatus ==
    \A f \in 1..Len(sheets) : \A r \in 1..Len(sheets[f]) :
        Dropped(f, r) =>
            /\ \A i \in 1..Len(all_events) :
                 ~(all_events[i].file = f /\ all_events[i].sheet_row = r)
            /\ Len(onsets) <= Len(all_events)
            /\ r \in DOMAIN colF[f] => colF[f][r] \notin Statuses

\* the field text is a number
Numeric(b) == PyFloatOk(Strip(DecodeIgnore(b)))

\* C9: no parse of a numeric header field raises; a field that is empty or
\* not a number resolves to 0, in read_edf_file_direct and in
\* convert_edf_to_edfplus.
C9_ParseNeverRaises ==
    /\ (fieldName # None /\ ~Numeric(fieldText)) =>
          IF fieldName \in DOMAIN header THEN header[fieldName] = 0
          ELSE IF fieldName \in DOMAIN signal_info
          THEN signal_info[fieldName] = 0
          ELSE signals[Len(signals)][fieldName] = 0
    /\ pc \notin {"find", "header"} =>
          /\ error \notin {"ValueError", "UnicodeDecodeError"}
          /\ ~Numeric(edf.records) => n_records = 0
          /\ ~Numeric(edf.duration) => record_duration = 0

\* C10: the parsed channel count and every parsed samples-per-record are
\* >= 0, so the size of the signal header block, nsignals * 256, is >= 0.
C10_CountsNonNegative ==
    /\ "nsignals" \in DOMAIN header =>
          header["nsignals"] >= 0 /\ header["nsignals"] * 256 >= 0
    /\ \A i \in 1..Len(signals) : signals[i]["samples_per_record"] >= 0

\* read_edf_file_direct has returned or raised
DecodeEnded == hpc \in {"returned", "raised"}

\* the file holds every declared block
CompleteStream == file_bytes >= 2 * DeclaredSamples(header, signals)

\* samples of channel c that the header declares: its valid length
ValidLength(c) ==
    IF header["records"] > 0 /\ signals[c]["samples_per_record"] > 0
    THEN header["records"] * signals[c]["samples_per_record"] ELSE 0

\* the position in the file (from 1) of sample j (from 1) of the block of
\* channel c in record r (from 0): records in order, channels in header order
BlockSample(r, c, j) ==
    r * RecordSamples(signals, Len(signals)) + RecordSamples(signals, c - 1) + j

\* C11: decoding a complete stream returns a grid with nsignals rows and
\* max over the channels of records * samples_per_record columns; the block of
\* record r and channel c is in row c at columns [r * spr, (r + 1) * spr);
\* channels with spr 0 read no bytes; cells beyond a channel's valid length
\* are zero.
C11_DecodeComplete ==
    (DecodeEnded /\ CompleteStream) =>
        /\ hpc = "returned"
        /\ Len(edf_data) = header["nsignals"]
        /\ fpos = 2 * DeclaredSamples(header, signals)
        /\ \A c \in 1..Len(edf_data) :
             /\ Len(edf_data[c]) = max_samples(header, signals)
             /\ \A k \in 1..Len(edf_data[c]) :
                  edf_data[c][k] =
                     IF k <= ValidLength(c)
                     THEN LET spr == signals[c]["samples_per_record"]
                          IN StreamSample(BlockSample((k - 1) \div spr, c,
                                                      ((k - 1) % spr) + 1))
                     ELSE 0

\* the file ends inside a declared block
TruncatedStream == file_bytes < 2 * DeclaredSamples(header, signals)

\* the file holds all of the block of channel c in record r
BlockComplete(r, c) ==
    2 * BlockSample(r, c, signals[c]["samples_per_record"]) <= file_bytes

\* C12: when the stream ends before a declared block is complete, the decoder
\* still returns the header and the grid, with the incomplete blocks left
\* zero and the complete ones in place.
C12_TruncatedStream ==
    (DecodeEnded /\ TruncatedStream) =>
        /\ hpc = "returned"
        /\ Len(edf_data) = header["nsignals"]
        /\ \A c \in 1..Len(edf_data) :
             /\ Len(edf_data[c]) = max_samples(header, signals)
             /\ \A k \in 1..ValidLength(c) :
                  LET spr == signals[c]["samples_per_record"]
                      r == (k - 1) \div spr
                  IN edf_data[c][k] =
                        IF BlockComplete(r, c)
                        THEN StreamSample(BlockSample(r, c, ((k - 1) % spr) + 1))
                        ELSE 0

\* channel c requires scaling and its digital limits are equal
Degenerate(c) ==
    /\ signals[c]["physical_max"] # signals[c]["physical_min"]
    /\ signals[c]["digital_max"] = signals[c]["digital_min"]

\* the scaling loop of create_mne_raw_from_edf_data was entered and has ended
ScalingEnded ==
    /\ hpc \in {"returned", "raised"}
    /\ signals # <<>>
    /\ header["duration"] # 0
    /\ herror # "ValueError"

\* C13: a channel with physical_max # physical_min and digital_max =
\* digital_min ends the scaling in ZeroDivisionError: no scaled grid is
\* produced, with or without infinities.
C13_DegenerateCalibration ==
    (ScalingEnded /\ \E c \in 1..Len(signals) : Degenerate(c)) =>
        /\ hpc = "raised"
        /\ herror = "ZeroDivisionError"
        /\ data_float = <<>>

\* the second channel is degenerate, the first one is scaled regularly
C13_Witness ==
    /\ ScalingEnded
    /\ hpc = "raised"
    /\ Len(signals) = 2
    /\ Degenerate(2)
    /\ NeedsScaling(signals[1]) /\ ~Degenerate(1)

\* C14: a channel with physical_max = physical_min is not scaled: every
\* output sample is the stored integer, without a division, whatever the
\* digital limits are.
C14_IdentityScaling ==
    (ScalingEnded /\ hpc = "returned") =>
        \A c \in 1..Len(signals) :
            signals[c]["physical_max"] = signals[c]["physical_min"] =>
                /\ Len(data_float[c]) = Len(edf_data[c])
                /\ \A k \in 1..Len(edf_data[c]) :
                     data_float[c][k] = Real(edf_data[c][k])

\* one channel with equal physical and equal digital limits passed through,
\* next to a channel that was scaled
C14_Witness ==
    /\ ScalingEnded
    /\ hpc = "returned"
    /\ \E c, b \in 1..Len(signals) :
         /\ signals[c]["physical_max"] = signals[c]["physical_min"]
         /\ signals[c]["digital_max"] = signals[c]["digital_min"]
         /\ data_float[c] = [k \in 1..2 |-> Real(StoredSample(c, k))]
         /\ NeedsScaling(signals[b])
         /\ data_float[b][1].den # 1

\* generate_correct_filename returned a name
Named == fpc = "returned" /\ new_filename # NoVal

\* the stripped header fields of the file
PatientField == Strip(Val(edf_file.metadata).patient_id)
DateParts == Split(Strip(Val(edf_file.metadata).start_date), <<".">>)
TimeParts == Split(Strip(Val(edf_file.metadata).start_time), <<".">>)

\* the returned name without ".edf", and its parts from the right: the
\* 4 characters of the time token, the 8 of the date token, the identifier
NameStem == SubSeq(Val(new_filename), 1, Len(Val(new_filename)) - 4)
TimeToken == SubSeq(NameStem, Len(NameStem) - 3, Len(NameStem))
DateToken == SubSeq(NameStem, Len(NameStem) - 12, Len(NameStem) - 5)
IdPart == SubSeq(NameStem, 1, Len(NameStem) - 14)

\* C15: a returned name is '{patient_id}_{YYYYMMDD}_{HHMM}.edf': the date
\* token has 8 digits, YYYY = 2000 + YY when YY < 50 and 1900 + YY otherwise,
\* MM and DD are the header's month and day; the time token has 4 digits, the
\* header's hour and minute; the seconds are dropped.
C15_DateTimeTokens ==
    Named =>
        LET YY == PyIntVal(DateParts[3])
        IN /\ Len(NameStem) >= 14
           /\ SubSeq(Val(new_filename), Len(NameStem) + 1,
                     Len(Val(new_filename))) = EdfSuffix
           /\ NameStem[Len(NameStem) - 13] = "_"
           /\ NameStem[Len(NameStem) - 4] = "_"
           /\ AllDigits(DateToken)
           /\ DigitsVal(SubSeq(DateToken, 1, 4)) =
                 IF YY < 50 THEN 2000 + YY ELSE 1900 + YY
           /\ DigitsVal(SubSeq(DateToken, 5, 6)) = PyIntVal(DateParts[2])
           /\ DigitsVal(SubSeq(DateToken, 7, 8)) = PyIntVal(DateParts[1])
           /\ AllDigits(TimeToken)
           /\ DigitsVal(SubSeq(TimeToken, 1, 2)) = PyIntVal(TimeParts[1])
           /\ DigitsVal(SubSeq(TimeToken, 3, 4)) = PyIntVal(TimeParts[2])

\* date 1.7.49 and time 7.5.xx give 20490701_0705
C15_Witness ==
    /\ Named
    /\ DateParts = << <<"1">>, <<"7">>, <<"4", "9">> >>
    /\ TimeParts = << <<"7">>, <<"5">>, <<"x", "x">> >>
    /\ DateToken = <<"2", "0", "4", "9", "0", "7", "0", "1">>
    /\ TimeToken = <<"0", "7", "0", "5">>

\* the digit runs of s that cannot be extended and are followed by "_"
RunsBeforeUnderscore(s) ==
    {r \in (1..Len(s)) \X (1..Len(s)) :
        /\ r[1] <= r[2]
        /\ \A i \in r[1]..r[2] : s[i] \in Digit
        /\ r[1] = 1 \/ s[r[1] - 1] \notin Digit
        /\ r[2] < Len(s) /\ s[r[2] + 1] = "_"}

\* the first of them
LeadingRun(s) ==
    LET r == CHOOSE r \in RunsBeforeUnderscore(s) :
                \A q \in RunsBeforeUnderscore(s) : r[1] <= q[1]
    IN SubSeq(s, r[1], r[2])

\* C16: the identifier of a returned name is the header's patient field when
\* that is not empty and not "No Database Record", otherwise the first digit
\* run in front of an underscore in the file name; when the field is unusable
\* and the file name has no such run, no name is returned.
C16_PatientId ==
    (fpc = "returned" /\ edf_file.metadata # NoVal) =>
        IF PatientField # <<>> /\ PatientField # NoDatabaseRecord
        THEN Named => IdPart = PatientField
        ELSE IF RunsBeforeUnderscore(edf_file.name) # {}
        THEN Named => IdPart = LeadingRun(edf_file.name)
        ELSE new_filename = NoVal

\* the sentinel between blanks and the file name ab12_3_.edf give 12
C16_Witness ==
    /\ Named
    /\ PatientField = NoDatabaseRecord
    /\ Val(edf_file.metadata).patient_id # NoDatabaseRecord
    /\ edf_file.name = <<"a", "b", "1", "2", "_", "3", "_">> \o EdfSuffix
    /\ IdPart = <<"1", "2">>

\* the names convert_edf_to_edfplus built the backup name from
original_stem == Stem(edf_file.name)
final_stem == Remove(Val(output_file), EdfSuffix)

\* rollback_edf_files has processed the backup file of the conversion
BackupParsed == backup_file # NoVal /\ backup_path = backup_file

\* C17: the backup name '{original_stem}_backup_{final_stem}.edf' of the
\* converter is parsed by rollback_edf_files into original_stem + '.edf' and
\* final_stem + '.edf'.
C17_BackupRoundTrip ==
    BackupParsed =>
        /\ Val(backup_file) = BackupName(original_stem, final_stem)
        /\ original_path = Some(original_stem \o EdfSuffix)
        /\ edfplus_path = Some(final_stem \o EdfSuffix)

\* no row of any matching Excel file is retained as an event
NoMatchingEvents ==
    \A f \in 1..Len(sheets) : \A r \in 1..Len(sheets[f]) : Dropped(f, r)

\* C19: when there is no matching Excel file, or the matching files hold no
\* retained event, the conversion returns success and a file without
\* annotations is exported.
C19_NoEventsSucceeds ==
    (pc = "done" /\ error = "" /\ NoMatchingEvents) =>
        /\ result = TRUE
        /\ \E n \in DOMAIN fs : fs[n] = EdfPlus(0)

\* C20: after a successful conversion and the rollback that follows it, the
\* recording is at its original name again and no exported file is left.
C20_RollbackRestores ==
    (pc = "done" /\ result = TRUE /\ rpc = "done") =>
        /\ edf_file.name \in DOMAIN fs
        /\ fs[edf_file.name] = Recording
        /\ \A n \in DOMAIN fs : fs[n].kind # "edfplus"

\* the positions of the loop that ended with outcome o
Ended(o) == {i \in 1..Len(outcomes) : outcomes[i] = o}

\* C18: every discovered file is attempted exactly once, also behind a file
\* that failed or raised; success_count + len(failed_files) is the number of
\* discovered files, and a file is in failed_files exactly when its
\* conversion did not return True.
C18_BatchCounts ==
    /\ success_count + Len(failed_files) = Len(outcomes)
    /\ bpc = "done" =>
          /\ Len(outcomes) = Len(edf_files)
          /\ {edf_files[i] : i \in 1..Len(edf_files)}
                = {n \in listing : ToProcess(n)}
          /\ Len(edf_files) = Cardinality({n \in listing : ToProcess(n)})
          /\ success_count = Cardinality(Ended("True"))
          /\ success_count + Len(failed_files) = Len(edf_files)
          /\ \A i \in 1..Len(edf_files) :
                (outcomes[i] # "True") <=>
                    \E j \in 1..Len(failed_files) : failed_files[j] = edf_files[i]
          /\ \A j, k \in 1..Len(failed_files) :
                j # k => failed_files[j] # failed_files[k]

\* three files: the first raised, the second returned False, the third True
C18_Witness ==
    /\ bpc = "done"
    /\ outcomes = <<"raised", "False", "True">>
    /\ success_count = 1
    /\ Len(failed_files) = 2

\* the conversion is under way or over, rollback_edf_files has not started
Converting == rpc = "find"

\* name holds the recording as it was found
HoldsRecording(name) == name \in DOMAIN fs /\ fs[name] = Recording

\* C21: in in-place mode the original file is renamed to its backup name
\* before the export is written, and the export never goes to the backup
\* path: at every step of the conversion the recording is on disk under its
\* original name or under the backup name.
C21_RecordingKept ==
    Converting =>
        /\ \/ HoldsRecording(edf_file.name)
           \/ backup_file # NoVal /\ HoldsRecording(Val(backup_file))
        /\ backup_file # NoVal => output_file # backup_file
        /\ (\E n \in DOMAIN fs : fs[n].kind = "edfplus") =>
              backup_file # NoVal /\ HoldsRecording(Val(backup_file))

\* the export replaced the file at the original name: the recording is under
\* the backup name only
C21_Witness ==
    /\ Converting
    /\ pc = "done"
    /\ result = TRUE
    /\ output_file = Some(edf_file.name)
    /\ fs[edf_file.name].kind = "edfplus"
    /\ HoldsRecording(Val(backup_file))

\* C22: over consecutive runs of process_all_edf_files on a directory, no
\* file that is a backup or the export of an earlier conversion is converted
\* again, and a backup that holds the recording is not overwritten.
C22_BackupsKept ==
    [][/\ (bpc = "loop" /\ bpc' = "convert") =>
            /\ ~IsBackupName(edf_file'.name)
            /\ fs[edf_file'.name].kind # "edfplus"
       /\ \A n \in DOMAIN fs :
            (IsBackupName(n) /\ fs[n] = Recording) =>
                (n \in DOMAIN fs' /\ fs'[n] = Recording)]_vars

\* C23: when convert_edf_to_edfplus returns False, whichever step failed,
\* the EDF file is still at its original name with its contents unchanged.
C23_FailureKeepsFile ==
    (Converting /\ pc = "done" /\ result = FALSE) =>
        HoldsRecording(edf_file.name)

\* the duration repair took the truncate branch
Truncated == target_samples # NoVal /\ Val(target_samples) < current_samples

\* C24: after a truncate (target sample count < current sample count) every
\* channel holds exactly the first target samples of the decoded matrix, in
\* order, and zero_padding_start is unset.
C24_TruncateKeepsHead ==
    Truncated =>
        /\ zero_padding_start = NoVal
        /\ \A c \in 1..edf.nchan :
             raw.data[c] = [k \in 1..Val(target_samples) |-> MneSample(c, k)]

\* C25: the row_index stored when an event is loaded, plus one, is the
\* worksheet row the event was read from, also when the first row of the
\* sheet is empty and was removed while loading.
C25_RowIndexIsSheetRow ==
    \A i \in 1..Len(all_events) :
        WrittenRow(all_events[i].row_index) = all_events[i].sheet_row

\* the worksheet row an event was read from
RowOf(e) == sheets[e.file][e.sheet_row]

\* a time text that holds ':' and is not three numeric fields
Malformed(row) ==
    /\ has_time(row)
    /\ ~(Len(row.time) = 3 /\ \A p \in 1..3 : row.time[p].ok)

\* C26: a row whose time text holds ':' but is not three numeric fields
\* divided by colons never gives an INCLUDED annotation, whatever the anchor,
\* 0 included.
C26_MalformedNotIncluded ==
    Classified =>
        \A i \in 1..Len(all_events) :
            Malformed(RowOf(all_events[i])) => ~Included(i)

\* the block that the next pass of the record loop reads has samples in it
ReadingBlock == hpc = "read" /\ signals[sig + 1]["samples_per_record"] > 0

\* C27: the overflow condition of read_edf_file_direct is never met: for every
\* record r below the record count and every channel c with a positive
\* samples_per_record, (r + 1) * samples_per_record[c] <= max_samples, and the
\* block that the record loop is about to store ends inside the grid, so the
\* "exceeds allocated space" branch skips no block.
C27_NoOverflow ==
    /\ \A r \in 0..(header["records"] - 1) : \A c \in 1..Len(signals) :
          signals[c]["samples_per_record"] > 0 =>
             (r + 1) * signals[c]["samples_per_record"]
                <= max_samples(header, signals)
    /\ ReadingBlock =>
          /\ rec < header["records"]
          /\ (rec + 1) * signals[sig + 1]["samples_per_record"]
                <= max_samples(header, signals)
          /\ (rec + 1) * signals[sig + 1]["samples_per_record"]
                <= Len(edf_data[sig + 1])

\* the last block of a channel shorter than the longest one is about to be
\* stored, behind blocks already read
C27_Witness ==
    /\ ReadingBlock
    /\ rec + 1 = header["records"]
    /\ rec > 0
    /\ fpos > 0
    /\ file_bytes - fpos >= 2 * signals[sig + 1]["samples_per_record"]
    /\ total_samples(header, signals, sig + 1) < max_samples(header, signals)

====
